---- MODULE Spec2Model ----
(***************************************************************************)
(* Model of src/src/json_to_mongo.py: MongoDBDataLoader resolves each      *)
(* configured batch under the primary or the secondary S3 root, lists the  *)
(* batch's JSON objects, fetches and decodes each one and inserts its      *)
(* record(s) into a MongoDB collection guarded by a unique index.          *)
(*                                                                         *)
(* Strings the code inspects (object keys, prefixes, batch names) are      *)
(* sequences of one-character strings, so that startswith / endswith /     *)
(* os.path.join act on characters as they do in Python.                    *)
(***************************************************************************)
EXTENDS Integers, Sequences, FiniteSets, TLC

\* ------------------------------------------------------------------ bounds

\* Longest configured batch list (cfg.batches).
MaxBatches == 2

\* Store operations (create_index / insert_one) that may fail with an error
\* other than a uniqueness violation, over one behaviour.
MaxStoreErrors == 1

\* ----------------------------------------------------------------- strings

Slash == "/"

\* Code points of the characters used, for S3's lexicographic listing order.
Ord(c) ==
    CASE c = "." -> 46
      [] c = "/" -> 47
      [] c = "a" -> 97
      [] c = "b" -> 98
      [] c = "j" -> 106
      [] c = "k" -> 107
      [] c = "m" -> 109
      [] c = "n" -> 110
      [] c = "o" -> 111
      [] c = "p" -> 112
      [] c = "s" -> 115
      [] c = "t" -> 116
      [] c = "x" -> 120
      [] c = "y" -> 121
      [] c = "z" -> 122

\* str.startswith
StartsWith(s, pre) ==
    /\ Len(pre) <= Len(s)
    /\ SubSeq(s, 1, Len(pre)) = pre

\* str.endswith
EndsWith(s, suf) ==
    /\ Len(suf) <= Len(s)
    /\ SubSeq(s, Len(s) - Len(suf) + 1, Len(s)) = suf

RECURSIVE LexLess(_, _)
\* a < b in the byte order S3 lists keys in.
LexLess(a, b) ==
    IF b = <<>> THEN FALSE
    ELSE IF a = <<>> THEN TRUE
    ELSE IF Head(a) = Head(b) THEN LexLess(Tail(a), Tail(b))
    ELSE Ord(Head(a)) < Ord(Head(b))

\* The keys of a finite set in listing order: the i-th is the key with i - 1
\* keys before it.
SortKeys(S) ==
    [i \in 1..Cardinality(S) |->
        CHOOSE k \in S : Cardinality({o \in S : LexLess(o, k)}) = i - 1]

\* os.path.join(a, b) for two components (posixpath).
PathJoin(a, b) ==
    IF StartsWith(b, <<Slash>>) THEN b
    ELSE IF a = <<>> \/ EndsWith(a, <<Slash>>) THEN a \o b
    ELSE a \o <<Slash>> \o b

JsonSuffix == <<".", "j", "s", "o", "n">>

\* ----------------------------------------------------------- configuration

\* cfg.paths.primary_longterm_storage / secondary_longterm_storage
primary_s3_root == <<"p">>
secondary_s3_root == <<"s">>

BatchA == <<"a">>
BatchAB == <<"a", "b">>
BatchB == <<"b">>
BatchNames == {BatchA, BatchAB, BatchB}

\* Every batch list the configuration may hold.
BatchLists == UNION {[1..n -> BatchNames] : n \in 0..MaxBatches}

\* ----------------------------------------------------------------- records

Null == "null"

\* The value an index sees for a field: a missing field indexes as null.
Field(d, f) == IF f \in DOMAIN d THEN d[f] ELSE Null

R0 == [image_id |-> "i0"]
R1 == [cutout_id |-> "x1"]
R1b == [cutout_id |-> "x1", image_id |-> "i1"]
R2 == [cutout_id |-> "x2"]
R3 == [cutout_id |-> "x3"]
R4 == [cutout_id |-> "x4"]

\* Decoded JSON values: a mapping or a list of values.
Dict(d) == [t |-> "dict", d |-> d, items |-> <<>>]
List(s) == [t |-> "list", d |-> <<>>, items |-> s]

\* Object bodies: bytes that decode to a JSON value, or that do not.
Body(v) == [enc |-> "ok", val |-> v]
BadUtf8 == [enc |-> "badutf8", val |-> List(<<>>)]
BadJson == [enc |-> "badjson", val |-> List(<<>>)]

Key(root, batch, name) == root \o <<Slash>> \o batch \o <<Slash>> \o name
JsonName(c) == <<c>> \o JsonSuffix

\* Batch "ab" lies under both roots, batch "a" under the secondary root only
\* (next to its sibling "ab"), batch "b" under neither.
StoreFull ==
    (Key(primary_s3_root, BatchAB, JsonName("k")) :> Body(Dict(R3))) @@
    (Key(primary_s3_root, BatchAB, JsonName("m")) :> BadJson) @@
    (Key(primary_s3_root, BatchAB, <<"n">>) :> BadUtf8) @@
    (Key(primary_s3_root, BatchAB, JsonName("x")) :> Body(List(<<Dict(R1), Dict(R1b), Dict(R2)>>))) @@
    (Key(secondary_s3_root, BatchA, JsonName("y")) :> Body(Dict(R2))) @@
    (Key(secondary_s3_root, BatchAB, JsonName("z")) :> Body(Dict(R4)))

\* Batch "a" lies under the primary root, batch "b" under the secondary root.
StoreSmall ==
    (Key(primary_s3_root, BatchA, JsonName("k")) :> Body(List(<<Dict(R0), Dict(R1), Dict(R0)>>))) @@
    (Key(secondary_s3_root, BatchB, JsonName("m")) :> BadUtf8) @@
    (Key(secondary_s3_root, BatchB, JsonName("x")) :> Body(Dict(R1b)))

Stores == {StoreFull, StoreSmall}

\* What the collection and its unique indexes may be before the first run.
InitialDatabases ==
    { [collection |-> <<>>, index |-> {}],
      [collection |-> <<R1>>, index |-> {"cutout_id"}],
      [collection |-> <<R1, R1b>>, index |-> {}] }

\* ------------------------------------------------------------ object store

\* s3_bucket.objects.filter(Prefix=prefix): the keys that start with prefix,
\* in listing order.
ObjectsFilter(s3v, prefix) ==
    SortKeys({k \in DOMAIN s3v : StartsWith(k, prefix)})

\* s3_folder_exists: append "/" unless present, then any(filter(...).limit(1)).
s3_folder_exists(s3v, folder_key) ==
    LET fk == IF EndsWith(folder_key, <<Slash>>) THEN folder_key
              ELSE folder_key \o <<Slash>>
        found == ObjectsFilter(s3v, fk)
        resp == IF Len(found) > 1 THEN <<found[1]>> ELSE found
    IN  Len(resp) > 0

\* The listing loops of load_json_files_from_batches: the keys under
\* Prefix=batch_dir that end in '.json'.
ListJsonFiles(s3v, batch_dir) ==
    SelectSeq(ObjectsFilter(s3v, batch_dir), LAMBDA k : EndsWith(k, JsonSuffix))

\* One iteration of the batch loop up to the file loop, for the roots tried
\* in the order first, second.  probes: the existence probes made; root: the
\* root resolved; enter: whether the file loop runs (FALSE: continue);
\* json_files: the value of the variable json_files afterwards.
ResolveWith(s3v, batch_name, prev_json_files, first, second, continues) ==
    LET dir1 == PathJoin(first.path, batch_name)
        hit1 == s3_folder_exists(s3v, dir1)
        dir2 == PathJoin(second.path, batch_name)
        hit2 == s3_folder_exists(s3v, dir2)
    IN  IF hit1
        THEN [probes |-> <<[root |-> first.name, prefix |-> dir1, hit |-> TRUE]>>,
              root |-> first.name, batch_dir |-> dir1, enter |-> TRUE,
              json_files |-> ListJsonFiles(s3v, dir1)]
        ELSE IF hit2
        THEN [probes |-> <<[root |-> first.name, prefix |-> dir1, hit |-> FALSE],
                           [root |-> second.name, prefix |-> dir2, hit |-> TRUE]>>,
              root |-> second.name, batch_dir |-> dir2, enter |-> TRUE,
              json_files |-> ListJsonFiles(s3v, dir2)]
        ELSE [probes |-> <<[root |-> first.name, prefix |-> dir1, hit |-> FALSE],
                           [root |-> second.name, prefix |-> dir2, hit |-> FALSE]>>,
              root |-> "none", batch_dir |-> dir2, enter |-> ~continues,
              json_files |-> prev_json_files]

Primary == [name |-> "primary", path |-> primary_s3_root]
Secondary == [name |-> "secondary", path |-> secondary_s3_root]

\* ResolveBatch probing the secondary root before the primary one.
ResolveBatchSecondaryFirst(s3v, batch_name, prev_json_files) ==
    ResolveWith(s3v, batch_name, prev_json_files, Secondary, Primary, TRUE)

\* ResolveBatch without the continue of the not-found branch.
ResolveBatchNoContinue(s3v, batch_name, prev_json_files) ==
    ResolveWith(s3v, batch_name, prev_json_files, Primary, Secondary, FALSE)

\* Lines 87-109: primary first, then secondary, else warn and continue.
ResolveBatch(s3v, batch_name, prev_json_files) ==
    ResolveWith(s3v, batch_name, prev_json_files, Primary, Secondary, TRUE)

\* --------------------------------------------------------- document store

\* Two documents of coll agree on field f.
HasDuplicates(coll, f) ==
    \E i, j \in 1..Len(coll) : i # j /\ Field(coll[i], f) = Field(coll[j], f)

\* index_value of create_id_index, with the two field names swapped.
IndexValueSwapped(data_type) ==
    IF data_type = "cutouts" THEN "image_id" ELSE "cutout_id"

\* index_value = "cutout_id" if data_type == 'cutouts' else "image_id"
IndexValue(data_type) ==
    IF data_type = "cutouts" THEN "cutout_id" ELSE "image_id"

\* create_index(..., unique=False)
UniqueOff == FALSE

\* create_index(index_value, unique=True)
Unique == TRUE

\* create_id_index when the except branch does not exit.
create_id_index_no_exit(coll, idx, data_type, reachable) ==
    LET index_value == IndexValue(data_type)
        raises == \/ ~reachable
                  \/ Unique /\ index_value \notin idx /\ HasDuplicates(coll, index_value)
    IN  [index |-> IF raises \/ ~Unique THEN idx ELSE idx \cup {index_value},
         raised |-> raises, exited |-> FALSE]

\* create_id_index: create the unique index (a no-op when it exists); any
\* exception (store unreachable, existing documents violate the constraint)
\* is logged and the process exits.  index: the unique indexes afterwards.
create_id_index(coll, idx, data_type, reachable) ==
    LET index_value == IndexValue(data_type)
        raises == \/ ~reachable
                  \/ Unique /\ index_value \notin idx /\ HasDuplicates(coll, index_value)
    IN  [index |-> IF raises \/ ~Unique THEN idx ELSE idx \cup {index_value},
         raised |-> raises, exited |-> raises]

\* collection.insert_one(doc): TypeError for a non-mapping, a store error when
\* the store fails, DuplicateKeyError when a unique index already holds the
\* document's value, else the document is appended.
insert_one(coll, idx, v, fails) ==
    IF v.t # "dict" THEN [collection |-> coll, outcome |-> "TypeError"]
    ELSE IF fails THEN [collection |-> coll, outcome |-> "OtherError"]
    ELSE IF \E f \in idx : \E i \in 1..Len(coll) : Field(coll[i], f) = Field(v.d, f)
    THEN [collection |-> coll, outcome |-> "DuplicateKeyError"]
    ELSE [collection |-> Append(coll, v.d), outcome |-> "Inserted"]

\* ------------------------------------------------------ insert_data_from_file

\* The records a decoded value holds: the elements of a list, else the value.
Records(v) == IF v.t = "list" THEN v.items ELSE <<v>>

RECURSIVE InsertItems(_, _, _, _, _, _)
\* The insert loop of insert_data_from_file from element i on: each insert_one
\* is wrapped in "except DuplicateKeyError" only, so any other exception leaves
\* the loop.  fail: the element at which the store fails (0: none).
InsertItems(coll, idx, items, i, fail, acc) ==
    IF i > Len(items)
    THEN [collection |-> coll, attempts |-> acc, error |-> "none"]
    ELSE LET r == insert_one(coll, idx, items[i], fail = i)
         IN  IF r.outcome = "Inserted"
             THEN InsertItems(r.collection, idx, items, i + 1, fail,
                              Append(acc, [i |-> i, doc |-> items[i].d, outcome |-> "Inserted"]))
             ELSE IF r.outcome = "DuplicateKeyError"
             THEN InsertItems(r.collection, idx, items, i + 1, fail,
                              Append(acc, [i |-> i, doc |-> items[i].d, outcome |-> "Skipped"]))
             ELSE [collection |-> r.collection,
                   attempts |-> Append(acc, [i |-> i, doc |-> items[i].d, outcome |-> "Failed"]),
                   error |-> r.outcome]

\* insert_data_from_file with the outer handler absorbing (log.exception) or
\* not.  error: the exception the outer handler saw ("none": none); raised:
\* whether it reaches the caller; decoded: whether json.loads returned.
InsertDataWith(coll, idx, s3v, json_file_path, fail, absorbs) ==
    IF json_file_path \notin DOMAIN s3v
    THEN [collection |-> coll, attempts |-> <<>>, error |-> "NoSuchKey",
          raised |-> ~absorbs, decoded |-> FALSE, n |-> 0]
    ELSE LET body == s3v[json_file_path]
         IN  IF body.enc = "badutf8"
             THEN [collection |-> coll, attempts |-> <<>>, error |-> "UnicodeDecodeError",
                   raised |-> ~absorbs, decoded |-> FALSE, n |-> 0]
             ELSE IF body.enc = "badjson"
             THEN [collection |-> coll, attempts |-> <<>>, error |-> "JSONDecodeError",
                   raised |-> ~absorbs, decoded |-> FALSE, n |-> 0]
             ELSE LET data == body.val
                      r == InsertItems(coll, idx, Records(data), 1, fail, <<>>)
                  IN  [collection |-> r.collection, attempts |-> r.attempts,
                       error |-> r.error, raised |-> r.error # "none" /\ ~absorbs,
                       decoded |-> TRUE, n |-> Len(Records(data))]

\* Where the store may fail during insert_data_from_file: at no insert_one
\* (0) or at the insert_one of one element.
FailPoints(s3v, json_file_path) ==
    IF json_file_path \in DOMAIN s3v /\ s3v[json_file_path].enc = "ok"
    THEN 0..Len(Records(s3v[json_file_path].val))
    ELSE {0}

\* insert_data_from_file without the outer "except Exception".
insert_data_from_file_unguarded(coll, idx, s3v, json_file_path, fail) ==
    InsertDataWith(coll, idx, s3v, json_file_path, fail, FALSE)

\* insert_data_from_file: get, decode, insert; every exception is logged by
\* the outer handler and ends the call.
insert_data_from_file(coll, idx, s3v, json_file_path, fail) ==
    InsertDataWith(coll, idx, s3v, json_file_path, fail, TRUE)

\* -------------------------------------------------------------------- state

VARIABLES
    s3,             \* the bucket: object key -> body
    cfg_batches,    \* cfg.batches
    collection,     \* the documents of the collection, in insertion order
    index,          \* the fields the collection has a unique index on
    pc,             \* where the process is
    index_ok,       \* create_id_index returned in this run
    batches,        \* the argument of load_json_files_from_batches
    bi,             \* position of the batch loop
    json_files,     \* the local variable json_files
    fi,             \* position of the file loop
    handled,        \* this run's batch iterations
    fetched,        \* this run's insert_data_from_file calls
    attempts,       \* this run's insert_one calls
    errors,         \* this run's log.exception records of insert_data_from_file
    store_errors,   \* store failures so far
    run_clean,      \* no store failure in this run
    rerun,          \* a run went before this one
    prev_done,      \* the run before completed (main returned)
    prev_clean,     \* the run before completed without a store failure
    coll_at_start   \* the collection when this run started

vars == <<s3, cfg_batches, collection, index, pc, index_ok, batches, bi,
          json_files, fi, handled, fetched, attempts, errors, store_errors,
          run_clean, rerun, prev_done, prev_clean, coll_at_start>>

config == <<s3, cfg_batches>>
logs == <<handled, fetched, attempts, errors>>
history == <<rerun, prev_done, prev_clean, coll_at_start>>

Init ==
    /\ s3 \in Stores
    /\ cfg_batches \in BatchLists
    /\ \E db \in InitialDatabases :
          /\ collection = db.collection
          /\ index = db.index
          /\ coll_at_start = db.collection
    /\ pc = "start"
    /\ index_ok = FALSE
    /\ batches = <<>>
    /\ bi = 1
    /\ json_files = <<>>
    /\ fi = 1
    /\ handled = <<>>
    /\ fetched = <<>>
    /\ attempts = <<>>
    /\ errors = <<>>
    /\ store_errors = 0
    /\ run_clean = TRUE
    /\ rerun = FALSE
    /\ prev_done = FALSE
    /\ prev_clean = FALSE

\* main, line 157: MongoDBDataLoader(cfg); __init__ ends with
\* create_id_index("cutouts").
MongoDBDataLoader_init ==
    /\ pc = "start"
    /\ \E reachable \in BOOLEAN :
          /\ reachable \/ store_errors < MaxStoreErrors
          /\ \E r \in {create_id_index(collection, index, "cutouts", reachable)} :
                 /\ index' = r.index
                 /\ index_ok' = ~r.raised
                 /\ pc' = IF r.exited THEN "exited" ELSE "constructed"
                 /\ store_errors' = IF reachable THEN store_errors ELSE store_errors + 1
                 /\ run_clean' = (run_clean /\ reachable)
    /\ UNCHANGED <<config, collection, batches, bi, json_files, fi, logs, history>>

\* main, lines 160-163: load_batches_from_yaml, then the call of
\* load_json_files_from_batches.
load_batches_from_yaml ==
    /\ pc = "constructed"
    /\ batches' = cfg_batches
    /\ bi' = 1
    /\ pc' = "batch"
    /\ UNCHANGED <<config, collection, index, index_ok, json_files, fi, logs,
                   store_errors, run_clean, history>>

\* Lines 86-109: one iteration of the batch loop up to the file loop.
NextBatch ==
    /\ pc = "batch"
    /\ bi <= Len(batches)
    /\ \E r \in {ResolveBatch(s3, batches[bi], json_files)} :
           /\ json_files' = r.json_files
           /\ handled' = Append(handled, [batch_name |-> batches[bi], probes |-> r.probes,
                                          root |-> r.root, batch_dir |-> r.batch_dir,
                                          entered |-> r.enter,
                                          listed |-> IF r.enter THEN r.json_files ELSE <<>>])
           /\ IF r.enter
              THEN pc' = "files" /\ fi' = 1 /\ bi' = bi
              ELSE pc' = "batch" /\ fi' = fi /\ bi' = bi + 1
    /\ UNCHANGED <<config, collection, index, index_ok, batches, fetched, attempts,
                   errors, store_errors, run_clean, history>>

\* Lines 111-112: one iteration of the file loop, a call of
\* insert_data_from_file.
NextFile ==
    /\ pc = "files"
    /\ fi <= Len(json_files)
    /\ \E fail \in FailPoints(s3, json_files[fi]) :
       \E r \in {insert_data_from_file(collection, index, s3, json_files[fi], fail)} :
          LET f == Len(fetched) + 1
          IN  /\ fail > 0 => store_errors < MaxStoreErrors /\ r.error = "OtherError"
              /\ collection' = r.collection
              /\ fetched' = Append(fetched, [h |-> Len(handled), key |-> json_files[fi],
                                             decoded |-> r.decoded, n |-> r.n])
              /\ attempts' = attempts \o
                     [k \in 1..Len(r.attempts) |->
                         [f |-> f, i |-> r.attempts[k].i, doc |-> r.attempts[k].doc,
                          outcome |-> r.attempts[k].outcome]]
              /\ errors' = IF r.error = "none" THEN errors
                           ELSE Append(errors, [f |-> f, error |-> r.error])
              /\ store_errors' = IF fail > 0 THEN store_errors + 1 ELSE store_errors
              /\ run_clean' = (run_clean /\ fail = 0)
              /\ IF r.raised
                 THEN pc' = "crashed" /\ fi' = fi
                 ELSE pc' = "files" /\ fi' = fi + 1
    /\ UNCHANGED <<config, index, index_ok, batches, bi, json_files, handled, history>>

\* Line 111 when json_files is exhausted: back to the batch loop.
EndFiles ==
    /\ pc = "files"
    /\ fi > Len(json_files)
    /\ pc' = "batch"
    /\ bi' = bi + 1
    /\ UNCHANGED <<config, collection, index, index_ok, batches, json_files, fi, logs,
                   store_errors, run_clean, history>>

\* Line 86 when batches is exhausted: load_json_files_from_batches and main
\* return.
Return ==
    /\ pc = "batch"
    /\ bi > Len(batches)
    /\ pc' = "done"
    /\ UNCHANGED <<config, collection, index, index_ok, batches, bi, json_files, fi,
                   logs, store_errors, run_clean, history>>

\* The program is started again on the same configuration and bucket; the
\* collection and its indexes persist.
Rerun ==
    /\ pc \in {"done", "exited"}
    /\ pc' = "start"
    /\ index_ok' = FALSE
    /\ batches' = <<>>
    /\ bi' = 1
    /\ json_files' = <<>>
    /\ fi' = 1
    /\ handled' = <<>>
    /\ fetched' = <<>>
    /\ attempts' = <<>>
    /\ errors' = <<>>
    /\ run_clean' = TRUE
    /\ rerun' = TRUE
    /\ prev_done' = (pc = "done")
    /\ prev_clean' = (pc = "done" /\ run_clean)
    /\ coll_at_start' = collection
    /\ UNCHANGED <<config, collection, index, store_errors>>

Next ==
    \/ MongoDBDataLoader_init
    \/ load_batches_from_yaml
    \/ NextBatch
    \/ NextFile
    \/ EndFiles
    \/ Return
    \/ Rerun

Spec == Init /\ [][Next]_vars

\* One thread runs main to its end: no step of a started run waits forever.
Run ==
    \/ MongoDBDataLoader_init
    \/ load_batches_from_yaml
    \/ NextBatch
    \/ NextFile
    \/ EndFiles
    \/ Return

FairSpec == Spec /\ WF_vars(Run)

\* ------------------------------------------------------------------ claims

\* The path of a resolved root.
RootPath(name) == IF name = "primary" THEN primary_s3_root ELSE secondary_s3_root

\* The bucket holds an object under exactly root/batch_name/.
PresentUnder(root, batch_name) ==
    \E k \in DOMAIN s3 : StartsWith(k, root \o <<Slash>> \o batch_name \o <<Slash>>)

\* The insert_one calls made for the f-th fetched object of this run.
AttemptsOf(f) == {k \in 1..Len(attempts) : attempts[k].f = f}

\* The objects fetched in the h-th batch iteration of this run, in order.
FetchedOf(h) ==
    LET sel == SelectSeq(fetched, LAMBDA e : e.h = h)
    IN  [k \in 1..Len(sel) |-> sel[k].key]

\* The exceptions insert_data_from_file logged for the f-th fetched object.
ErrorsOf(f) == {k \in 1..Len(errors) : errors[k].f = f}

\* C1: once the unique index has been created, no two distinct documents of
\* the collection have the same cutout_id value, whatever was inserted.
C1_UniqueIdentifiers ==
    (index_ok \/ "cutout_id" \in index) => ~HasDuplicates(collection, "cutout_id")

\* C1 witness: under the index, a run inserted a document and skipped another
\* as a duplicate.
C1_Witness ==
    /\ index_ok
    /\ Len(collection) >= 2
    /\ \E k \in 1..Len(attempts) : attempts[k].outcome = "Skipped"
    /\ \E k \in 1..Len(attempts) : attempts[k].outcome = "Inserted"

\* What C2 says of a second run: no fatal error, the collection unchanged,
\* every insert skipped as a duplicate.
SecondRunIdle ==
    /\ pc \notin {"exited", "crashed"}
    /\ collection = coll_at_start
    /\ \A k \in 1..Len(attempts) : attempts[k].outcome = "Skipped"

C3_OneAttemptPerRecord ==
    \A f \in 1..Len(fetched) :
        fetched[f].decoded => Cardinality(AttemptsOf(f)) = fetched[f].n

\* C4: a duplicate never aborts: after a skipped element every later element
\* of its list is attempted, no exception reaches the caller, and at the end
\* of the run every listed object was fetched and every batch handled.
C4_DuplicateNeverAborts ==
    /\ pc # "crashed"
    /\ \A k \in 1..Len(attempts) :
          attempts[k].outcome = "Skipped" =>
              \A i \in (attempts[k].i + 1)..fetched[attempts[k].f].n :
                  \E j \in AttemptsOf(attempts[k].f) : attempts[j].i = i
    /\ pc = "done" =>
          /\ Len(handled) = Len(batches)
          /\ \A h \in 1..Len(handled) : FetchedOf(h) = handled[h].listed

\* The h-th batch iteration is over.
BatchOver(h) == h < Len(handled) \/ pc \in {"batch", "done"}

\* C5: in a batch with an object whose fetch or decode fails, that object gets
\* no insert attempt and exactly one logged error, and every well-formed
\* object listed for the batch is fetched and each of its records attempted.
C5_DecodeFailureIsolated ==
    \A h \in 1..Len(handled) :
        (BatchOver(h) /\ \E f \in 1..Len(fetched) : fetched[f].h = h /\ ~fetched[f].decoded) =>
            /\ FetchedOf(h) = handled[h].listed
            /\ \A f \in 1..Len(fetched) :
                  fetched[f].h = h =>
                      IF fetched[f].decoded
                      THEN Cardinality(AttemptsOf(f)) = fetched[f].n
                      ELSE AttemptsOf(f) = {} /\ Cardinality(ErrorsOf(f)) = 1

\* C6: each batch iteration probes the primary root first and the secondary
\* root only when the primary probe found nothing; the batch resolves to the
\* first root that holds an object under it, and every object fetched for it
\* lies under that root.
C6_PrimaryThenSecondary ==
    \A h \in 1..Len(handled) :
        LET e == handled[h]
            inP == PresentUnder(primary_s3_root, e.batch_name)
            inS == PresentUnder(secondary_s3_root, e.batch_name)
        IN  /\ e.probes[1].root = "primary"
            /\ e.probes[1].hit = inP
            /\ Len(e.probes) = (IF inP THEN 1 ELSE 2)
            /\ Len(e.probes) = 2 => e.probes[2].root = "secondary" /\ e.probes[2].hit = inS
            /\ e.root = (IF inP THEN "primary" ELSE IF inS THEN "secondary" ELSE "none")
            /\ \A f \in 1..Len(fetched) :
                  fetched[f].h = h =>
                      StartsWith(fetched[f].key, RootPath(e.root) \o <<Slash>>)

\* C6 witness: one run ingested a batch present only under the secondary
\* root from there, and a batch present under both roots from the primary.
C6_Witness ==
    /\ \E h \in 1..Len(handled) :
          /\ handled[h].root = "secondary"
          /\ FetchedOf(h) # <<>>
    /\ \E h \in 1..Len(handled) :
          /\ handled[h].root = "primary"
          /\ PresentUnder(secondary_s3_root, handled[h].batch_name)
          /\ FetchedOf(h) # <<>>

\* C7: a batch B resolves under a root only if an object lies under exactly
\* root/B/, and every object fetched while B is processed lies under root/B/.
C7_NoPrefixCollision ==
    \A h \in 1..Len(handled) :
        LET e == handled[h]
        IN  e.root # "none" =>
                /\ PresentUnder(RootPath(e.root), e.batch_name)
                /\ \A f \in 1..Len(fetched) :
                      fetched[f].h = h =>
                          StartsWith(fetched[f].key,
                                     RootPath(e.root) \o <<Slash>> \o e.batch_name \o <<Slash>>)

\* C8: nothing is probed, fetched or inserted in a run before create_id_index
\* succeeded in it, and when it fails the process exits having probed, fetched
\* and inserted nothing.
C8_IndexBeforeInserts ==
    /\ (handled # <<>> \/ fetched # <<>> \/ attempts # <<>>) =>
          index_ok /\ "cutout_id" \in index
    /\ pc \in {"constructed", "batch", "files", "done", "crashed"} => index_ok
    /\ pc = "exited" =>
          /\ ~index_ok
          /\ handled = <<>> /\ fetched = <<>> /\ attempts = <<>>
          /\ collection = coll_at_start

\* C8 witness: index creation failed on a collection that already holds two
\* documents with one cutout_id, and the process exited.
C8_Witness ==
    /\ pc = "exited"
    /\ HasDuplicates(collection, "cutout_id")

\* C9: a batch found under neither root is skipped, no object fetched and no
\* insert attempted for it, and the run goes on to the end of the batch list.
C9_NotFoundSkipped ==
    /\ pc # "crashed"
    /\ \A h \in 1..Len(handled) :
          handled[h].root = "none" =>
              /\ ~handled[h].entered
              /\ \A f \in 1..Len(fetched) : fetched[f].h # h
    /\ pc = "done" => Len(handled) = Len(batches)

\* C9 witness: a completed run skipped a not-found batch right after a batch
\* whose objects it had fetched.
C9_Witness ==
    /\ pc = "done"
    /\ \E h \in 2..Len(handled) :
          /\ handled[h].root = "none"
          /\ FetchedOf(h - 1) # <<>>

\* No exception has reached the caller, and a completed run handled every
\* batch name once, in list order, and every listed object of it in order.
RunIntact ==
    /\ pc # "crashed"
    /\ pc = "done" =>
          /\ [h \in 1..Len(handled) |-> handled[h].batch_name] = batches
          /\ \A h \in 1..Len(handled) : FetchedOf(h) = handled[h].listed
          /\ \A f \in 1..Len(fetched) : f > 1 => fetched[f - 1].h <= fetched[f].h

\* C10: once the index exists a run always terminates, having handled every
\* batch once in order, whatever failed on the way.
C10_RunCompletes ==
    /\ []RunIntact
    /\ (pc = "constructed") ~> (pc = "done")

\* C10 witness: a run completed although it met a not-found batch, an
\* undecodable object, a duplicate and a store write error.
C10_Witness ==
    /\ pc = "done"
    /\ \E h \in 1..Len(handled) : handled[h].root = "none"
    /\ \E k \in 1..Len(errors) : errors[k].error = "JSONDecodeError"
    /\ \E k \in 1..Len(errors) : errors[k].error = "OtherError"
    /\ \E k \in 1..Len(attempts) : attempts[k].outcome = "Skipped"

====
